---- MODULE Spec2Model ----
(***************************************************************************)
(* The agent-bridge coordination store of src/server.py: the three         *)
(* module-level stores (messages, tasks, shared_context), the id           *)
(* generator and the handlers of call_tool / read_resource.                *)
(*                                                                         *)
(* One step of the model is one whole request: call_tool is a coroutine    *)
(* with no await in its body, so a handler runs from its first statement   *)
(* to its return without interleaving.                                     *)
(***************************************************************************)
EXTENDS Integers, Sequences, FiniteSets, TLC

(***************************************************************************)
(* Bounds of the model.                                                    *)
(***************************************************************************)
\* longest message list explored
MaxMessages == 3
\* longest task list explored
MaxTasks == 1
\* longest message list explored beside every operation of the server
MaxListedTasks == 2       \* tasks in the list where the order of a listing shows
MaxWholeMessages == 2
\* last instant of the wall clock, in clock ticks
MaxClock == 2
\* last instant of the wall clock beside every operation of the server
MaxWholeClock == 1
\* clock ticks per millisecond (1000 microseconds in the source, scaled down)
TicksPerMs == 2
\* number of distinct values of uuid4().hex[:9] explored (16^9 in the source)
MaxRand == 2

(***************************************************************************)
(* Inputs.                                                                 *)
(***************************************************************************)
Agents == {"cascade", "codex"}
Rand == 0 .. (MaxRand - 1)
\* an id string that generate_id has not produced
NoSuchId == <<-1, 0>>

VARIABLES
    messages,        \* server.py:18, list of message dicts
    tasks,           \* server.py:19, list of task dicts
    shared_context,  \* server.py:20, the context dict
    now,             \* the latest value datetime.now() has returned
    call,            \* the request being answered: [name, arguments]
    result,          \* the payload json.dumps serialises for that request
    before           \* the three stores as they were when the request arrived

vars == <<messages, tasks, shared_context, now, call, result, before>>

Store == [messages |-> messages, tasks |-> tasks, shared_context |-> shared_context]

(***************************************************************************)
(* generate_id: f"{int(datetime.now().timestamp() * 1000)}-{uuid4().hex[:9]}"*)
(* t is the clock value read, r the random draw.  The string is determined *)
(* by, and determines, the pair (millisecond, 9 hex digits).               *)
(***************************************************************************)
generate_id(t, r) == <<t \div TicksPerMs, r>>

\* datetime.now().isoformat(): the instant at full clock resolution
isoformat(t) == t

Init ==
    /\ messages = <<>>
    /\ tasks = <<>>
    /\ now = 0
    /\ shared_context = [currentBranch |-> "", activeFiles |-> <<>>,
                         recentChanges |-> <<>>, notes |-> "",
                         lastUpdated |-> isoformat(0)]
    /\ call = [name |-> "", arguments |-> [none |-> TRUE]]
    /\ result = [none |-> TRUE]
    /\ before = [messages |-> <<>>, tasks |-> <<>>,
                 shared_context |-> [currentBranch |-> "", activeFiles |-> <<>>,
                                     recentChanges |-> <<>>, notes |-> "",
                                     lastUpdated |-> isoformat(0)]]

\* bookkeeping common to every request
Request(name, arguments) ==
    /\ call' = [name |-> name, arguments |-> arguments]
    /\ before' = Store

\* an insertion at the head of the list: list.insert(0, x)
insert_first(list, x) == <<x>> \o list

\* server.py:161, 194, 196, 232 and 260: list.append(x)
append(list, x) == Append(list, x)

(***************************************************************************)
(* The subscripts arguments[key], server.py:155-265.  A handler evaluates  *)
(* them in the order of its text; the first one whose key is absent raises *)
(* KeyError and ends the call there.                                       *)
(***************************************************************************)
\* arguments[key] with the key present; None stands where it is absent
item(arguments, key) ==
    IF key \in DOMAIN arguments THEN arguments[key] ELSE "None"

\* the key of the first subscript that raises, "" when none does
first_missing(arguments, keys) ==
    IF \E i \in DOMAIN keys : keys[i] \notin DOMAIN arguments
    THEN keys[CHOOSE i \in DOMAIN keys :
                 /\ keys[i] \notin DOMAIN arguments
                 /\ \A j \in 1 .. (i - 1) : keys[j] \in DOMAIN arguments]
    ELSE ""

\* the call ends with KeyError(key): whatever the handler read from the
\* clock before the subscript, at instant t, it has written nothing
key_error(name, arguments, key, t) ==
    /\ result' = [raised |-> "KeyError", message |-> <<key>>]
    /\ now' = t
    /\ Request(name, arguments)
    /\ UNCHANGED <<messages, tasks, shared_context>>

(***************************************************************************)
(* send_message, server.py:152-162                                         *)
(***************************************************************************)
\* server.py:155-157, after generate_id() at line 154
send_message_subscripts == <<"from", "to", "content">>

send_message(arguments, clk, rnd) ==
    IF first_missing(arguments, send_message_subscripts) # ""
    THEN key_error("send_message", arguments,
                   first_missing(arguments, send_message_subscripts), clk[1])
    ELSE
    /\ LET message == [id |-> generate_id(clk[1], rnd[1]),
                       from |-> item(arguments, "from"),
                       to |-> item(arguments, "to"),
                       content |-> <<item(arguments, "content")>>,
                       timestamp |-> isoformat(clk[2]),
                       read |-> FALSE]
       IN /\ messages' = append(messages, message)
          /\ result' = [success |-> TRUE, messageId |-> message.id]
    /\ now' = clk[2]
    /\ Request("send_message", arguments)
    /\ UNCHANGED <<tasks, shared_context>>

(***************************************************************************)
(* get_messages, server.py:164-170                                         *)
(***************************************************************************)
\* A list comprehension [m for m in ms if test(m)] is SelectSeq(ms, test).

\* the test without the broadcast recipient
addressed_to_agent_only(m, agent) == m.to = agent

\* server.py:167, the test of the first comprehension
addressed_to(m, agent) == m.to = agent \/ m.to = "all"

\* a test that keeps a broadcast message unread for the others
not_read_or_broadcast(m) == ~m.read \/ m.to = "all"

\* server.py:169, the test of the second comprehension
not_read(m) == ~m.read

\* the empty dict {}
NoArguments == [x \in {} |-> TRUE]

\* arguments.get(key, default)
get(arguments, key, default) ==
    IF key \in DOMAIN arguments THEN arguments[key] ELSE default

\* server.py:165-170: the payload get_messages builds from the list ms
listing(ms, arguments) ==
    LET agent == item(arguments, "agent")
        unread_only == get(arguments, "unreadOnly", FALSE)
        filtered == SelectSeq(ms, LAMBDA m : addressed_to(m, agent))
        filtered2 == IF unread_only
                     THEN SelectSeq(filtered, LAMBDA m : not_read(m))
                     ELSE filtered
    IN [count |-> Len(filtered2), messages |-> filtered2]

\* server.py:165
get_messages_subscripts == <<"agent">>

\* a listing that marks the messages of the agent as read
get_messages_and_mark(arguments) ==
    /\ result' = listing(messages, arguments)
    /\ messages' = [i \in DOMAIN messages |->
                       IF addressed_to(messages[i], item(arguments, "agent"))
                       THEN [messages[i] EXCEPT !.read = TRUE]
                       ELSE messages[i]]
    /\ Request("get_messages", arguments)
    /\ UNCHANGED <<tasks, shared_context, now>>

get_messages(arguments) ==
    IF first_missing(arguments, get_messages_subscripts) # ""
    THEN key_error("get_messages", arguments,
                   first_missing(arguments, get_messages_subscripts), now)
    ELSE
    /\ result' = listing(messages, arguments)
    /\ Request("get_messages", arguments)
    /\ UNCHANGED <<messages, tasks, shared_context, now>>

(***************************************************************************)
(* mark_messages_read, server.py:172-179                                   *)
(***************************************************************************)
\* the test "if ids" in place of "if msg['id'] in ids"
any_listed(msg, ids) == ids # {}

\* server.py:176, the test of the loop body
is_listed(msg, ids) == msg.id \in ids

\* the assignment msg["read"] = not msg["read"]
toggle_read(msg) == [msg EXCEPT !.read = ~msg.read]

\* server.py:177, the assignment of the loop body
set_read(msg) == [msg EXCEPT !.read = TRUE]

\* a counter that skips a message already read
counted_if_unread(msg) == IF msg.read THEN 0 ELSE 1

\* server.py:178, what one matched message adds to the counter
counted(msg) == 1

\* server.py:174-178: the loop from message i on; yields the list and the counter
RECURSIVE mark_loop(_, _, _)
mark_loop(ms, i, ids) ==
    IF i > Len(ms) THEN [messages |-> <<>>, marked |-> 0]
    ELSE LET rest == mark_loop(ms, i + 1, ids)
         IN IF is_listed(ms[i], ids)
            THEN [messages |-> <<set_read(ms[i])>> \o rest.messages,
                  marked |-> counted(ms[i]) + rest.marked]
            ELSE [messages |-> <<ms[i]>> \o rest.messages, marked |-> rest.marked]

\* server.py:173
mark_messages_read_subscripts == <<"messageIds">>

mark_messages_read(arguments) ==
    IF first_missing(arguments, mark_messages_read_subscripts) # ""
    THEN key_error("mark_messages_read", arguments,
                   first_missing(arguments, mark_messages_read_subscripts), now)
    ELSE
    /\ LET ids == item(arguments, "messageIds")
           done == mark_loop(messages, 1, ids)
       IN /\ messages' = done.messages
          /\ result' = [success |-> TRUE, markedRead |-> done.marked]
    /\ Request("mark_messages_read", arguments)
    /\ UNCHANGED <<tasks, shared_context, now>>

(***************************************************************************)
(* create_task, server.py:181-204                                          *)
(***************************************************************************)
\* server.py:200, the f-string, as the sequence of its pieces (the emoji
\* that opens the first piece is left out of it)
new_task_content(task) ==
    <<"New task: \"", task.title, "\" (", task.priority, ")">>

\* the notification sent back to the creator
new_task_to_creator(task) == task.createdBy

\* server.py:198-199, sender and recipient of the notification
new_task_from(task) == task.createdBy
new_task_to(task) == task.assignedTo

\* subscripts that leave createdBy to a later arguments.get("createdBy")
create_task_subscripts_but_creator == <<"title", "description", "assignedTo">>

\* server.py:184-186 and 189, after generate_id() at line 183 and before
\* tasks.append at line 194
create_task_subscripts == <<"title", "description", "assignedTo", "createdBy">>

\* a create_task that other calls can overtake between its two appends:
\* the state they see has the task and not yet its notification
create_task_suspended(arguments, clk, rnd) ==
    /\ tasks' = append(tasks,
          [id |-> generate_id(clk[1], rnd[1]),
           title |-> item(arguments, "title"),
           description |-> item(arguments, "description"),
           assignedTo |-> item(arguments, "assignedTo"),
           createdBy |-> item(arguments, "createdBy"),
           status |-> "pending",
           priority |-> get(arguments, "priority", "medium"),
           createdAt |-> isoformat(clk[2]),
           updatedAt |-> isoformat(clk[3]),
           context |-> get(arguments, "context", NoArguments)])
    /\ result' = [suspended |-> TRUE]
    /\ now' = clk[3]
    /\ Request("create_task", arguments)
    /\ UNCHANGED <<messages, shared_context>>

create_task(arguments, clk, rnd) ==
    IF first_missing(arguments, create_task_subscripts) # ""
    THEN key_error("create_task", arguments,
                   first_missing(arguments, create_task_subscripts), clk[1])
    ELSE
    /\ LET task == [id |-> generate_id(clk[1], rnd[1]),
                    title |-> item(arguments, "title"),
                    description |-> item(arguments, "description"),
                    assignedTo |-> item(arguments, "assignedTo"),
                    createdBy |-> item(arguments, "createdBy"),
                    status |-> "pending",
                    priority |-> get(arguments, "priority", "medium"),
                    createdAt |-> isoformat(clk[2]),
                    updatedAt |-> isoformat(clk[3]),
                    context |-> get(arguments, "context", NoArguments)]
       IN /\ tasks' = append(tasks, task)
          /\ messages' = append(messages,
                [id |-> generate_id(clk[4], rnd[2]),
                 from |-> new_task_from(task),
                 to |-> new_task_to(task),
                 content |-> new_task_content(task),
                 timestamp |-> isoformat(clk[5]),
                 read |-> FALSE])
          /\ result' = [success |-> TRUE, taskId |-> task.id]
    /\ now' = clk[5]
    /\ Request("create_task", arguments)
    /\ UNCHANGED shared_context

(***************************************************************************)
(* get_tasks, server.py:206-219                                            *)
(***************************************************************************)
\* a test that also takes the tasks the agent created
is_assigned_or_created(t, agent) == t.assignedTo = agent \/ t.createdBy = agent

\* server.py:212, the test of the "assigned" comprehension
is_assigned(t, agent) == t.assignedTo = agent

\* server.py:207-219, the payload computed from the task list
task_listing(ts, arguments) ==
    LET agent == item(arguments, "agent")
        filter_type == get(arguments, "filter", "assigned")
        status_filter == get(arguments, "status", "all")
        filtered == ts
        filtered2 == IF filter_type = "assigned"
                     THEN SelectSeq(filtered, LAMBDA t : is_assigned(t, agent))
                     ELSE IF filter_type = "created"
                     THEN SelectSeq(filtered, LAMBDA t : t.createdBy = agent)
                     ELSE filtered
        filtered3 == IF status_filter # "all"
                     THEN SelectSeq(filtered2, LAMBDA t : t.status = status_filter)
                     ELSE filtered2
    IN [count |-> Len(filtered3), tasks |-> filtered3]

\* server.py:207
get_tasks_subscripts == <<"agent">>

get_tasks(arguments) ==
    IF first_missing(arguments, get_tasks_subscripts) # ""
    THEN key_error("get_tasks", arguments,
                   first_missing(arguments, get_tasks_subscripts), now)
    ELSE
    /\ result' = task_listing(tasks, arguments)
    /\ Request("get_tasks", arguments)
    /\ UNCHANGED <<messages, tasks, shared_context, now>>

(***************************************************************************)
(* update_task, server.py:221-242                                          *)
(***************************************************************************)
\* a lookup that falls back on the first task: next(..., tasks[0])
find_task_or_first(ts, task_id) ==
    IF \E i \in 1 .. Len(ts) : ts[i].id = task_id
    THEN CHOOSE i \in 1 .. Len(ts) :
            /\ ts[i].id = task_id
            /\ \A j \in 1 .. (i - 1) : ts[j].id # task_id
    ELSE IF Len(ts) > 0 THEN 1 ELSE 0

\* server.py:223, next((t for t in tasks if t["id"] == task_id), None):
\* the index of the first task with that id, 0 for None
find_task(ts, task_id) ==
    IF \E i \in 1 .. Len(ts) : ts[i].id = task_id
    THEN CHOOSE i \in 1 .. Len(ts) :
            /\ ts[i].id = task_id
            /\ \A j \in 1 .. (i - 1) : ts[j].id # task_id
    ELSE 0

\* the test on the task's status after the update: task["status"] == "completed"
completed_after(arguments, task) == task.status = "completed"

\* server.py:231, the test that decides the completion message
announces_completion(arguments, task) ==
    "status" \in DOMAIN arguments /\ arguments.status = "completed"

\* the body without the notes
completed_content_without_notes(task, notes) ==
    <<"Completed: \"", task.title, "\"">>

\* server.py:237, the f-string, as the sequence of its pieces (without the
\* emoji that opens it); "if notes" drops an empty notes
completed_content(task, notes) ==
    <<"Completed: \"", task.title, "\"">>
        \o (IF notes # "" THEN <<" - ", notes>> ELSE <<>>)

\* server.py:235-236, sender and recipient of the completion message
completed_from(task) == task.assignedTo

\* a completion message that goes to the assignee
completed_to_assignee(task) == task.assignedTo

completed_to(task) == task.createdBy

\* server.py:222
update_task_subscripts == <<"taskId">>

update_task(arguments, clk, rnd) ==
    IF first_missing(arguments, update_task_subscripts) # ""
    THEN key_error("update_task", arguments,
                   first_missing(arguments, update_task_subscripts), now)
    ELSE
    LET task_id == item(arguments, "taskId")
        k == find_task(tasks, task_id)
    IN
    /\ Request("update_task", arguments)
    /\ UNCHANGED shared_context
    /\ IF k = 0
       THEN /\ result' = [error |-> "Task not found"]
            /\ UNCHANGED <<messages, tasks, now>>
       ELSE /\ LET status == IF "status" \in DOMAIN arguments
                             THEN arguments.status ELSE tasks[k].status
                   task == [tasks[k] EXCEPT !.status = status,
                                            !.updatedAt = isoformat(clk[1])]
               IN /\ tasks' = [tasks EXCEPT ![k] = task]
                  /\ result' = [success |-> TRUE, task |-> task]
                  /\ IF announces_completion(arguments, task)
                     THEN /\ messages' = append(messages,
                                [id |-> generate_id(clk[2], rnd[1]),
                                 from |-> completed_from(task),
                                 to |-> completed_to(task),
                                 content |-> completed_content(task,
                                                get(arguments, "notes", "")),
                                 timestamp |-> isoformat(clk[3]),
                                 read |-> FALSE])
                          /\ now' = clk[3]
                     ELSE /\ UNCHANGED messages
                          /\ now' = clk[1]

(***************************************************************************)
(* update_context, server.py:244-254                                       *)
(***************************************************************************)
\* arguments.get(key, <the field's initial value>) in place of the "if"
overwrite_or_reset(context, arguments, key) ==
    IF key \in DOMAIN arguments THEN arguments[key]
    ELSE IF key \in {"activeFiles", "recentChanges"} THEN <<>> ELSE ""

\* server.py:245-252: one "if key in arguments: shared_context[key] = ..."
overwrite(context, arguments, key) ==
    IF key \in DOMAIN arguments THEN arguments[key] ELSE context[key]

\* a refresh only when the call supplies some field
last_updated_if_supplied(context, arguments, clk) ==
    IF DOMAIN arguments = {} THEN context.lastUpdated ELSE isoformat(clk[1])

\* server.py:253, the value written to lastUpdated
last_updated(context, arguments, clk) == isoformat(clk[1])

update_context(arguments, clk) ==
    /\ shared_context' =
          [currentBranch |-> overwrite(shared_context, arguments, "currentBranch"),
           activeFiles |-> overwrite(shared_context, arguments, "activeFiles"),
           recentChanges |-> overwrite(shared_context, arguments, "recentChanges"),
           notes |-> overwrite(shared_context, arguments, "notes"),
           lastUpdated |-> last_updated(shared_context, arguments, clk)]
    /\ now' = clk[1]
    /\ result' = [success |-> TRUE, context |-> shared_context']
    /\ Request("update_context", arguments)
    /\ UNCHANGED <<messages, tasks>>

(***************************************************************************)
(* get_context, server.py:256-257                                          *)
(***************************************************************************)
get_context(arguments) ==
    /\ result' = shared_context
    /\ Request("get_context", arguments)
    /\ UNCHANGED <<messages, tasks, shared_context, now>>

(***************************************************************************)
(* announce_presence, server.py:259-268                                    *)
(***************************************************************************)
\* server.py:264, the f-string, as the sequence of its pieces (without the
\* emoji that opens it)
presence_content(arguments) ==
    <<item(arguments, "agent"), " online: ", item(arguments, "status")>>

\* server.py:262 and 264, after generate_id() at line 261: the f-string
\* reads agent again, then status
announce_presence_subscripts == <<"agent", "agent", "status">>

announce_presence(arguments, clk, rnd) ==
    IF first_missing(arguments, announce_presence_subscripts) # ""
    THEN key_error("announce_presence", arguments,
                   first_missing(arguments, announce_presence_subscripts), clk[1])
    ELSE
    /\ messages' = append(messages,
          [id |-> generate_id(clk[1], rnd[1]),
           from |-> item(arguments, "agent"),
           to |-> "all",
           content |-> presence_content(arguments),
           timestamp |-> isoformat(clk[2]),
           read |-> FALSE])
    /\ now' = clk[2]
    /\ result' = [success |-> TRUE]
    /\ Request("announce_presence", arguments)
    /\ UNCHANGED <<tasks, shared_context>>

(***************************************************************************)
(* read_resource, server.py:280-288.  json.dumps of a store is the store;  *)
(* the raise leaves the function without a payload.                       *)
(***************************************************************************)
read_resource(uri) ==
    /\ result' =
          IF uri = "agent-bridge://messages" THEN [dump |-> messages]
          ELSE IF uri = "agent-bridge://tasks" THEN [dump |-> tasks]
          ELSE IF uri = "agent-bridge://context" THEN [dump |-> shared_context]
          ELSE [raised |-> "ValueError", message |-> <<"Unknown resource: ", uri>>]
    /\ Request("read_resource", [uri |-> uri])
    /\ UNCHANGED <<messages, tasks, shared_context, now>>

(***************************************************************************)
(* The tool names call_tool knows no branch for, server.py:270.            *)
(***************************************************************************)
\* a payload that does not say which name was asked for
unknown_tool_unnamed(name) == [error |-> <<"Unknown tool">>]

\* server.py:270, the payload: the f-string as the sequence of its pieces
unknown_tool_payload(name) == [error |-> <<"Unknown tool: ", name>>]

unknown_tool(name, arguments) ==
    /\ result' = unknown_tool_payload(name)
    /\ Request(name, arguments)
    /\ UNCHANGED <<messages, tasks, shared_context, now>>

(***************************************************************************)
(* list_tools, server.py:34-146: the "required" list of each inputSchema.  *)
(***************************************************************************)
required ==
    [send_message |-> {"from", "to", "content"},
     get_messages |-> {"agent"},
     mark_messages_read |-> {"messageIds"},
     create_task |-> {"title", "description", "assignedTo", "createdBy"},
     get_tasks |-> {"agent"},
     update_task |-> {"taskId"},
     update_context |-> {},
     get_context |-> {},
     announce_presence |-> {"agent", "status"}]

ToolNames == DOMAIN required

(***************************************************************************)
(* The requests explored.  An optional argument is a key that the          *)
(* arguments record has or has not.                                        *)
(***************************************************************************)
\* the records of base extended by key, one for each value
With(base, key, values) == {b @@ (key :> v) : b \in base, v \in values}

SendArgs ==
    { [from |-> "cascade", to |-> "codex", content |-> "hello"],
      [from |-> "codex", to |-> "cascade", content |-> "hello"],
      [from |-> "codex", to |-> "all", content |-> "hello"] }

GetMessagesArgs ==
    LET base == [agent : Agents]
    IN base \cup With(base, "unreadOnly", BOOLEAN)

\* every id some message or task holds, and one that none holds
KnownIds ==
    {messages[i].id : i \in 1 .. Len(messages)}
        \cup {tasks[i].id : i \in 1 .. Len(tasks)}
IdChoices == KnownIds \cup {NoSuchId}

\* messageIds lists of the given sizes (a list matters by its members alone)
MarkArgs(sizes) ==
    [messageIds : {ids \in SUBSET IdChoices : Cardinality(ids) \in sizes}]

CreateTaskArgs ==
    LET base == { [title |-> "fix", description |-> "the bug",
                   assignedTo |-> "codex", createdBy |-> "cascade"],
                  [title |-> "fix", description |-> "the bug",
                   assignedTo |-> "cascade", createdBy |-> "cascade"] }
    IN base \cup With(base, "priority", {"high"})

GetTasksArgs ==
    LET base == [agent : Agents]
        filtered == base \cup With(base, "filter", {"assigned", "created", "all"})
    IN filtered \cup With(filtered, "status", {"pending", "completed", "all"})

\* what update_task is given beside the taskId
UpdateOptions ==
    LET statused == {NoArguments} \cup
                    With({NoArguments}, "status", {"in_progress", "completed"})
    IN statused \cup With(statused, "notes", {"", "done"})

UpdateTaskArgs(options) == {o @@ ("taskId" :> id) : o \in options, id \in IdChoices}

UpdateContextArgs ==
    LET a == {NoArguments} \cup With({NoArguments}, "currentBranch", {"main", "dev"})
        b == a \cup With(a, "notes", {"a"})
        c == b \cup With(b, "activeFiles", {<<"server.py">>})
    IN c \cup With(c, "recentChanges", {<<"fixed ids">>})

AnnounceArgs == { [agent |-> "codex", status |-> "idle"] }

\* server.py:274-278, the resources the server lists
Resources == {"agent-bridge://messages", "agent-bridge://tasks",
              "agent-bridge://context"}

Uris == Resources \cup {"agent-bridge://nothing"}

\* names that are not tools of the server
UnknownNames == {"delete_message", "messages"}

\* the record a without the key d
Without(a, d) == [k \in (DOMAIN a) \ {d} |-> a[k]]

\* the requests, and where the scope drops keys, each of them short of one
\* of these keys too
Asked(requests, scope) ==
    requests \cup {Without(a, d) : a \in requests, d \in scope.dropped}

(***************************************************************************)
(* The environment: what the clock returns and what uuid4 draws.  Each     *)
(* datetime.now() of a handler returns an instant not before the previous  *)
(* one; two reads may return the same instant.  A scope says how far an    *)
(* exploration goes: how long the lists grow, how far the clock runs and   *)
(* which requests arrive.                                                  *)
(***************************************************************************)
Readings(n, scope) ==
    {clk \in [1 .. n -> 0 .. scope.clock] :
        /\ now <= clk[1]
        /\ \A i \in 1 .. (n - 1) : clk[i] <= clk[i + 1]}

Draws(n) == [1 .. n -> Rand]

SendMessage(scope) ==
    /\ Len(messages) < scope.messages
    /\ \E a \in Asked(scope.sends, scope), clk \in Readings(2, scope), rnd \in Draws(1) :
          send_message(a, clk, rnd)

GetMessages(scope) ==
    \E a \in Asked(scope.messageQueries, scope) : get_messages(a)

MarkMessagesRead(scope) ==
    \E a \in Asked(MarkArgs(scope.markSizes), scope) : mark_messages_read(a)

CreateTask(scope) ==
    /\ Len(messages) < scope.messages
    /\ Len(tasks) < scope.tasks
    /\ \E a \in Asked(scope.creates, scope), clk \in Readings(5, scope), rnd \in Draws(2) :
          create_task(a, clk, rnd)

GetTasks(scope) == \E a \in Asked(scope.taskQueries, scope) : get_tasks(a)

UpdateTask(scope) ==
    \E a \in Asked(UpdateTaskArgs(scope.updates), scope),
       clk \in Readings(3, scope), rnd \in Draws(1) :
        /\ update_task(a, clk, rnd)
        /\ Len(messages') <= scope.messages

UpdateContext(scope) ==
    \E a \in scope.contexts, clk \in Readings(1, scope) : update_context(a, clk)

GetContext == get_context(NoArguments)

AnnouncePresence(scope) ==
    /\ Len(messages) < scope.messages
    /\ \E a \in Asked(AnnounceArgs, scope), clk \in Readings(2, scope), rnd \in Draws(1) :
          announce_presence(a, clk, rnd)

ReadResource == \E uri \in Uris : read_resource(uri)

UnknownTool == \E name \in UnknownNames : unknown_tool(name, NoArguments)

(***************************************************************************)
(* The whole server: every operation, on short lists and a few requests    *)
(* of each kind, with the clock running.                                   *)
(***************************************************************************)
WholeScope ==
    [messages |-> MaxWholeMessages, tasks |-> MaxTasks, clock |-> MaxWholeClock,
     sends |-> { [from |-> "cascade", to |-> "codex", content |-> "hello"] },
     messageQueries |-> { [agent |-> "codex", unreadOnly |-> TRUE] },
     markSizes |-> {1},
     creates |-> { [title |-> "fix", description |-> "the bug",
                    assignedTo |-> "codex", createdBy |-> "cascade"] },
     taskQueries |-> { [agent |-> "codex"] },
     updates |-> { NoArguments, [status |-> "completed", notes |-> "done"] },
     contexts |-> { [notes |-> "a"], [currentBranch |-> "main"] },
     dropped |-> {}]

Next ==
    \/ SendMessage(WholeScope)
    \/ GetMessages(WholeScope)
    \/ MarkMessagesRead(WholeScope)
    \/ CreateTask(WholeScope)
    \/ GetTasks(WholeScope)
    \/ UpdateTask(WholeScope)
    \/ UpdateContext(WholeScope)
    \/ GetContext
    \/ AnnouncePresence(WholeScope)
    \/ ReadResource

Spec == Init /\ [][Next]_vars

(***************************************************************************)
(* The calls that fail: every operation with its request whole and with    *)
(* the request short of one key, and the names the server does not know,   *)
(* at one instant of the clock.                                            *)
(***************************************************************************)
FailureScope ==
    [messages |-> MaxWholeMessages, tasks |-> MaxTasks, clock |-> 0,
     sends |-> { [from |-> "cascade", to |-> "codex", content |-> "hello"] },
     messageQueries |-> { [agent |-> "codex", unreadOnly |-> TRUE] },
     markSizes |-> {1},
     creates |-> { [title |-> "fix", description |-> "the bug",
                    assignedTo |-> "codex", createdBy |-> "cascade"] },
     taskQueries |-> { [agent |-> "codex"] },
     updates |-> { [status |-> "completed"] },
     contexts |-> { [notes |-> "a"] },
     dropped |-> UNION {required[name] : name \in ToolNames}]

FailureNext ==
    \/ SendMessage(FailureScope)
    \/ GetMessages(FailureScope)
    \/ MarkMessagesRead(FailureScope)
    \/ CreateTask(FailureScope)
    \/ GetTasks(FailureScope)
    \/ UpdateTask(FailureScope)
    \/ UpdateContext(FailureScope)
    \/ GetContext
    \/ AnnouncePresence(FailureScope)
    \/ ReadResource
    \/ UnknownTool

FailureSpec == Init /\ [][FailureNext]_vars

(***************************************************************************)
(* The message store: every way a message comes to be, the listing and     *)
(* the marking, at one instant of the clock.                               *)
(***************************************************************************)
MessageScope ==
    [messages |-> MaxMessages, tasks |-> MaxTasks, clock |-> 0,
     sends |-> SendArgs,
     messageQueries |-> GetMessagesArgs,
     markSizes |-> {1, 2},
     creates |-> { [title |-> "fix", description |-> "the bug",
                    assignedTo |-> "codex", createdBy |-> "cascade"],
                   [title |-> "fix", description |-> "the bug",
                    assignedTo |-> "cascade", createdBy |-> "codex",
                    priority |-> "high"] },
     taskQueries |-> {}, updates |-> {}, contexts |-> {},
     dropped |-> {}]

MessageNext ==
    \/ SendMessage(MessageScope)
    \/ AnnouncePresence(MessageScope)
    \/ CreateTask(MessageScope)
    \/ GetMessages(MessageScope)
    \/ MarkMessagesRead(MessageScope)

MessageSpec == Init /\ [][MessageNext]_vars

(***************************************************************************)
(* The task store: creation, update and the notifications they send, at    *)
(* one instant of the clock.                                               *)
(***************************************************************************)
TaskScope ==
    [messages |-> MaxMessages, tasks |-> MaxTasks, clock |-> 0,
     sends |-> {},
     messageQueries |-> GetMessagesArgs,
     markSizes |-> {},
     creates |-> CreateTaskArgs,
     taskQueries |-> GetTasksArgs,
     updates |-> UpdateOptions,
     contexts |-> {},
     dropped |-> {}]

TaskNext ==
    \/ CreateTask(TaskScope)
    \/ UpdateTask(TaskScope)
    \/ GetTasks(TaskScope)
    \/ GetMessages(TaskScope)

TaskSpec == Init /\ [][TaskNext]_vars

(***************************************************************************)
(* The task listing over a list of several tasks, which differ in their    *)
(* roles and, after an update, in their status; the clock stands still.    *)
(***************************************************************************)
ListingScope ==
    [messages |-> MaxMessages, tasks |-> MaxListedTasks, clock |-> 0,
     sends |-> {},
     messageQueries |-> {},
     markSizes |-> {},
     creates |-> { [title |-> "fix", description |-> "the bug",
                    assignedTo |-> "codex", createdBy |-> "cascade"],
                   [title |-> "test", description |-> "the fix",
                    assignedTo |-> "cascade", createdBy |-> "codex"],
                   [title |-> "note", description |-> "to self",
                    assignedTo |-> "cascade", createdBy |-> "cascade"] },
     taskQueries |-> GetTasksArgs,
     updates |-> {[status |-> "completed"]},
     contexts |-> {},
     dropped |-> {}]

ListingNext ==
    \/ CreateTask(ListingScope)
    \/ UpdateTask(ListingScope)
    \/ GetTasks(ListingScope)

ListingSpec == Init /\ [][ListingNext]_vars

(***************************************************************************)
(* The shared context, beside stores that are not empty, with the clock    *)
(* running.                                                                *)
(***************************************************************************)
ContextScope ==
    [messages |-> 1, tasks |-> MaxTasks, clock |-> MaxClock,
     sends |-> {}, messageQueries |-> {}, markSizes |-> {},
     creates |-> { [title |-> "fix", description |-> "the bug",
                    assignedTo |-> "codex", createdBy |-> "cascade"] },
     taskQueries |-> {}, updates |-> {},
     contexts |-> UpdateContextArgs,
     dropped |-> {}]

ContextNext ==
    \/ CreateTask(ContextScope)
    \/ UpdateContext(ContextScope)
    \/ GetContext

ContextSpec == Init /\ [][ContextNext]_vars

(***************************************************************************)
(* Properties.  `before` is the store as the request met it, `call` the    *)
(* request and `result` its payload, so a state predicate over them        *)
(* speaks of one whole call.                                               *)
(***************************************************************************)
Called(name) == call.name = name
Positions(ms) == 1 .. Len(ms)

\* the ids held by the store, messages first, one entry per holder
HeldIds == [i \in 1 .. (Len(messages) + Len(tasks)) |->
              IF i <= Len(messages) THEN messages[i].id
              ELSE tasks[i - Len(messages)].id]

\* C1: no two holders (messages or tasks) in the store have the same id:
\* generate_id never returns a value it returned before.
C1_IdsNeverRepeat ==
    \A i, j \in DOMAIN HeldIds : i # j => HeldIds[i] # HeldIds[j]

\* C2: get_messages(agent, unreadOnly) returns exactly the messages addressed
\* to agent or to "all" (and, with unreadOnly, not yet read), in the order
\* of the store, and count is their number.
C2_GetMessagesListsTheMail ==
    Called("get_messages") =>
        LET agent == call.arguments.agent
            unreadOnly == IF "unreadOnly" \in DOMAIN call.arguments
                          THEN call.arguments.unreadOnly ELSE FALSE
            ms == before.messages
            Wanted(i) == /\ ms[i].to \in {agent, "all"}
                         /\ unreadOnly => ~ms[i].read
            Rank(i) == Cardinality({j \in 1 .. i : Wanted(j)})
        IN /\ result.count = Cardinality({i \in Positions(ms) : Wanted(i)})
           /\ Len(result.messages) = result.count
           /\ \A i \in Positions(ms) : Wanted(i) => result.messages[Rank(i)] = ms[i]

\* C2, its case: an unread-only listing that returns a broadcast message and
\* leaves out a message to the agent that is read and a message to another.
C2_Witness ==
    /\ Called("get_messages")
    /\ "unreadOnly" \in DOMAIN call.arguments
    /\ call.arguments.unreadOnly
    /\ \E i \in Positions(result.messages) : result.messages[i].to = "all"
    /\ \E i \in Positions(messages) :
          messages[i].to = call.arguments.agent /\ messages[i].read
    /\ \E i \in Positions(messages) :
          messages[i].to \notin {call.arguments.agent, "all"}

\* the positions of the messages a mark_messages_read call lists
Listed == {i \in Positions(before.messages) :
              before.messages[i].id \in call.arguments.messageIds}

\* C3, as claimed: markedRead is the number of messages the call turned from
\* unread to read.
C3_MarkedReadCountsTransitions ==
    Called("mark_messages_read") =>
        result.markedRead =
            Cardinality({i \in Positions(before.messages) :
                            ~before.messages[i].read /\ messages[i].read})

\* C3, amended: markedRead is the number of stored messages whose id is
\* listed, read already or not.
C3_MarkedReadCountsListed ==
    Called("mark_messages_read") => result.markedRead = Cardinality(Listed)

\* C3, its case: a call that lists only messages already read, and counts them.
C3_Witness ==
    /\ Called("mark_messages_read")
    /\ Listed # {}
    /\ \A i \in Listed : before.messages[i].read
    /\ result.markedRead > 0

\* C4: mark_messages_read succeeds whatever ids it is given; afterwards a
\* message is read iff it was read or its id is listed; nothing else of the
\* messages changes, nor the tasks, nor the shared context.
C4_MarkReadFrame ==
    Called("mark_messages_read") =>
        /\ result.success = TRUE
        /\ Len(messages) = Len(before.messages)
        /\ \A i \in Positions(messages) :
              /\ messages[i].read = (before.messages[i].read \/ i \in Listed)
              /\ [messages[i] EXCEPT !.read = before.messages[i].read]
                    = before.messages[i]
        /\ tasks = before.tasks
        /\ shared_context = before.shared_context

\* C4, its case: the ids mix a stored message's with one no message has,
\* another message stays unread, and there is a task.
C4_Witness ==
    /\ Called("mark_messages_read")
    /\ NoSuchId \in call.arguments.messageIds
    /\ Listed # {}
    /\ \E i \in Positions(messages) : ~messages[i].read
    /\ tasks # <<>>

\* C5: a message that is read stays in the store and stays read, whatever
\* the operation.
C5_ReadIsMonotonic ==
    [][\A i \in Positions(messages) :
          messages[i].read => (i <= Len(messages') /\ messages'[i].read)]_vars

\* C5, its case: operations that have met a read message, among them a
\* second mark_messages_read of it.
C5_Witness ==
    /\ Called("mark_messages_read")
    /\ \E i \in Listed : before.messages[i].read /\ messages[i].read
    /\ \E i \in Positions(messages) : ~messages[i].read

\* the text s is one of the pieces of the body
Mentions(body, s) == \E i \in DOMAIN body : body[i] = s

\* the list grew by exactly its last element
GrewByOne(old, new) ==
    /\ Len(new) = Len(old) + 1
    /\ SubSeq(new, 1, Len(old)) = old

\* C6: create_task appends exactly one task, pending, and exactly one
\* message, from createdBy to assignedTo, unread, naming the title and the
\* priority; where the assignee had no unread message before, the unread
\* listing of the assignee is then that one notification.
C6_CreateTaskNotifies ==
    Called("create_task") =>
        LET a == call.arguments
            task == tasks[Len(tasks)]
            note == messages[Len(messages)]
            priority == IF "priority" \in DOMAIN a THEN a.priority ELSE "medium"
            unread == [agent |-> a.assignedTo, unreadOnly |-> TRUE]
        IN /\ GrewByOne(before.tasks, tasks)
           /\ task.status = "pending"
           /\ task.title = a.title
           /\ GrewByOne(before.messages, messages)
           /\ note.from = a.createdBy
           /\ note.to = a.assignedTo
           /\ note.read = FALSE
           /\ Mentions(note.content, a.title)
           /\ Mentions(note.content, priority)
           /\ listing(before.messages, unread).count = 0
                 => listing(messages, unread) = [count |-> 1, messages |-> <<note>>]

\* C6, its case: a task created for another agent, beside earlier messages
\* of which the assignee has none unread.
C6_Witness ==
    /\ Called("create_task")
    /\ call.arguments.assignedTo # call.arguments.createdBy
    /\ \E i \in Positions(before.messages) :
          before.messages[i].to = call.arguments.assignedTo
    /\ listing(before.messages,
               [agent |-> call.arguments.assignedTo, unreadOnly |-> TRUE]).count = 0
    /\ listing(messages,
               [agent |-> call.arguments.assignedTo, unreadOnly |-> TRUE]).count = 1

\* the update_task call named a stored task
Found == \E i \in Positions(before.tasks) : before.tasks[i].id = call.arguments.taskId

\* where that task is: the first position with the id
TargetPosition ==
    CHOOSE i \in Positions(before.tasks) :
        /\ before.tasks[i].id = call.arguments.taskId
        /\ \A j \in 1 .. (i - 1) : before.tasks[j].id # call.arguments.taskId

\* that task, as the call met it
Target == before.tasks[TargetPosition]

\* the call supplied status = "completed"
AskedCompleted ==
    "status" \in DOMAIN call.arguments /\ call.arguments.status = "completed"

\* the last message is a completion message of the target task
LastIsCompletion ==
    LET m == messages[Len(messages)]
    IN /\ m.from = Target.assignedTo
       /\ m.to = Target.createdBy
       /\ m.read = FALSE
       /\ Mentions(m.content, Target.title)

\* C7: update_task(id, status = "completed", notes = n) on a stored task
\* appends exactly one message, from assignedTo to createdBy, unread, whose
\* body has the title and n; also when the task was completed already.
C7_CompletionMessage ==
    (Called("update_task") /\ Found /\ AskedCompleted) =>
        /\ GrewByOne(before.messages, messages)
        /\ LastIsCompletion
        /\ ("notes" \in DOMAIN call.arguments /\ call.arguments.notes # "")
              => Mentions(messages[Len(messages)].content, call.arguments.notes)

\* C7, its case: the same completion repeated on a task completed already,
\* with notes, sending a second message like the first.
C7_Witness ==
    /\ Called("update_task") /\ Found /\ AskedCompleted
    /\ Target.status = "completed"
    /\ Target.assignedTo # Target.createdBy
    /\ "notes" \in DOMAIN call.arguments /\ call.arguments.notes = "done"
    /\ Len(messages) = 3
    /\ messages[2].content = messages[3].content

\* the status of the target task after the call
StatusAfter == tasks[TargetPosition].status

\* C8, as claimed: a successful update_task appends one completion message
\* exactly when the task's status after the call is completed.
C8_NotifiesByResultingStatus ==
    (Called("update_task") /\ Found) =>
        IF StatusAfter = "completed"
        THEN GrewByOne(before.messages, messages) /\ LastIsCompletion
        ELSE messages = before.messages

\* C8, amended: a successful update_task appends one completion message
\* exactly when the call supplies status = "completed".
C8_NotifiesBySuppliedStatus ==
    (Called("update_task") /\ Found) =>
        IF AskedCompleted
        THEN GrewByOne(before.messages, messages) /\ LastIsCompletion
        ELSE messages = before.messages

\* C8, its case: notes alone, on a task that is completed: no message.
C8_Witness ==
    /\ Called("update_task") /\ Found
    /\ "status" \notin DOMAIN call.arguments
    /\ "notes" \in DOMAIN call.arguments
    /\ Target.status = "completed" /\ StatusAfter = "completed"
    /\ messages = before.messages

\* C9: update_task with a taskId no task has returns the error payload and
\* leaves messages, tasks and shared context as they were.
C9_UnknownTaskChangesNothing ==
    (Called("update_task") /\ ~Found) =>
        /\ result = [error |-> "Task not found"]
        /\ Store = before

\* C9, its case: status = "completed" for an id no task has, beside a task.
C9_Witness ==
    /\ Called("update_task") /\ ~Found /\ AskedCompleted
    /\ tasks # <<>> /\ messages # <<>>
    /\ result = [error |-> "Task not found"]

ContextFields == {"currentBranch", "activeFiles", "recentChanges", "notes"}

\* C10: update_context overwrites the fields its arguments have, keeps the
\* value of every field they have not, and leaves messages and tasks alone.
C10_UpdateContextMerges ==
    Called("update_context") =>
        /\ \A f \in ContextFields :
              shared_context[f] = IF f \in DOMAIN call.arguments
                                  THEN call.arguments[f]
                                  ELSE before.shared_context[f]
        /\ messages = before.messages
        /\ tasks = before.tasks

\* C10, its case: notes = "a" written earlier, then currentBranch = "main"
\* alone: both are there, beside a task and its message.
C10_Witness ==
    /\ Called("update_context")
    /\ call.arguments = [currentBranch |-> "main"]
    /\ before.shared_context.notes = "a"
    /\ before.shared_context.currentBranch # "main"
    /\ shared_context.notes = "a"
    /\ shared_context.currentBranch = "main"
    /\ tasks # <<>> /\ messages # <<>>

\* the context as the module creates it, but for lastUpdated
Untouched(context) ==
    /\ context.currentBranch = ""
    /\ context.activeFiles = <<>>
    /\ context.recentChanges = <<>>
    /\ context.notes = ""

\* C11, as claimed: every update_context call refreshes lastUpdated, and the
\* value after a call is strictly greater than the value after the
\* update_context call before it.
C11_LastUpdatedStrictlyIncreases ==
    Called("update_context") =>
        /\ shared_context.lastUpdated = isoformat(now)
        /\ ~Untouched(before.shared_context)
              => shared_context.lastUpdated > before.shared_context.lastUpdated

\* C11, amended: every update_context call, whatever it supplies, sets
\* lastUpdated to the instant the call read from the clock; the value is
\* never smaller than the one before, and the same when the clock has not
\* moved between the two calls.
C11_LastUpdatedIsTheReading ==
    Called("update_context") =>
        /\ shared_context.lastUpdated = isoformat(now)
        /\ shared_context.lastUpdated >= before.shared_context.lastUpdated
        /\ result.context.lastUpdated = shared_context.lastUpdated

\* C11, its case: a call that supplies no field, after an earlier call,
\* moves lastUpdated on.
C11_Witness ==
    /\ Called("update_context")
    /\ call.arguments = NoArguments
    /\ ~Untouched(before.shared_context)
    /\ shared_context.lastUpdated > before.shared_context.lastUpdated

\* C12: get_tasks(agent, filter, status) returns, in the order of the store,
\* exactly the tasks that pass the role filter (assigned to the agent by
\* default, created by the agent, or all) and the status filter (all by
\* default), and count is their number.
C12_GetTasksFilters ==
    Called("get_tasks") =>
        LET agent == call.arguments.agent
            role == IF "filter" \in DOMAIN call.arguments
                    THEN call.arguments.filter ELSE "assigned"
            status == IF "status" \in DOMAIN call.arguments
                      THEN call.arguments.status ELSE "all"
            ts == before.tasks
            Wanted(i) == /\ role = "assigned" => ts[i].assignedTo = agent
                         /\ role = "created" => ts[i].createdBy = agent
                         /\ status # "all" => ts[i].status = status
            Rank(i) == Cardinality({j \in 1 .. i : Wanted(j)})
        IN /\ result.count = Cardinality({i \in Positions(ts) : Wanted(i)})
           /\ Len(result.tasks) = result.count
           /\ \A i \in Positions(ts) : Wanted(i) => result.tasks[Rank(i)] = ts[i]

\* C12, its case: a listing by default role that returns one of two stored
\* tasks and leaves out the other, which the agent created.
C12_Witness ==
    /\ Called("get_tasks")
    /\ "filter" \notin DOMAIN call.arguments
    /\ Len(tasks) = 2
    /\ result.count = 1
    /\ \E i \in Positions(tasks) :
          /\ tasks[i].createdBy = call.arguments.agent
          /\ tasks[i].assignedTo # call.arguments.agent

\* the pending tasks assigned to the agent, as get_tasks lists them
PendingFor(agent) ==
    task_listing(tasks, [agent |-> agent, filter |-> "assigned",
                         status |-> "pending"]).tasks

\* the unread mail of the agent, as get_messages lists it
UnreadFor(agent) == listing(messages, [agent |-> agent, unreadOnly |-> TRUE])

\* the store holds nothing but the task T1 of the hand-off and its
\* notification, and creator and assignee differ
HandedOff(store) ==
    /\ Len(store.tasks) = 1
    /\ Len(store.messages) = 1
    /\ store.tasks[1].assignedTo # store.tasks[1].createdBy

\* C13: hand-off. From an empty store, after A creates T1 for B (A # B) the
\* pending tasks assigned to B contain T1; after update_task(T1.id,
\* completed) they no longer contain T1, and the unread messages of A are
\* exactly one message, the completion message naming T1's title.
C13_HandOff ==
    /\ ( /\ Called("create_task")
         /\ before.tasks = <<>> /\ before.messages = <<>>
         /\ HandedOff(Store) )
       => \E i \in Positions(PendingFor(tasks[1].assignedTo)) :
             PendingFor(tasks[1].assignedTo)[i].id = result.taskId
    /\ ( /\ Called("update_task") /\ Found /\ AskedCompleted
         /\ HandedOff(before)
         /\ Target.status = "pending" )
       => /\ \A i \in Positions(PendingFor(Target.assignedTo)) :
                PendingFor(Target.assignedTo)[i].id # Target.id
          /\ UnreadFor(Target.createdBy).count = 1
          /\ UnreadFor(Target.createdBy).messages = <<messages[Len(messages)]>>
          /\ GrewByOne(before.messages, messages)
          /\ messages[Len(messages)].from = Target.assignedTo
          /\ Mentions(messages[Len(messages)].content, Target.title)

\* C13, its case: the completion of T1, pending until then, by a call that
\* follows the hand-off from A to B.
C13_Witness ==
    /\ Called("update_task") /\ Found /\ AskedCompleted
    /\ HandedOff(before)
    /\ Target.status = "pending"
    /\ ~before.messages[1].read
    /\ tasks[1].status = "completed"

\* the call came to an end by an exception
Raised == "raised" \in DOMAIN result

\* the request lacks an argument that the tool's schema requires
ShortOfRequired ==
    /\ call.name \in ToolNames
    /\ ~(required[call.name] \subseteq DOMAIN call.arguments)

\* C14: a call of send_message, mark_messages_read, create_task, update_task,
\* get_messages, get_tasks or announce_presence that lacks a required
\* argument fails, and leaves messages, tasks and the shared context as they
\* were before the call.
C14_FailureMutatesNothing ==
    ShortOfRequired => (Raised /\ Store = before)

\* C14, its case: a create_task without createdBy, on stores with room for
\* a task and its notification: neither of them is added.
C14_Witness ==
    /\ Called("create_task")
    /\ "createdBy" \notin DOMAIN call.arguments
    /\ {"title", "description", "assignedTo"} \subseteq DOMAIN call.arguments
    /\ Len(messages) = 1 /\ tasks = <<>>
    /\ Raised

\* the call named a tool that call_tool has no branch for
UnknownToolCalled == call.name \in UnknownNames

\* the call read a resource that the server does not list
UnknownResourceRead ==
    Called("read_resource") /\ call.arguments.uri \notin Resources

\* the result is an error payload that names s
ErrorPayloadNaming(s) ==
    /\ ~Raised
    /\ "error" \in DOMAIN result
    /\ Mentions(result.error, s)

\* C15, as claimed: a call_tool with an unknown tool name and a read_resource
\* with an unknown uri are both answered by an error payload that names the
\* identifier, never by an exception, and leave the three stores unchanged.
C15_UnknownAnsweredByPayload ==
    /\ UnknownToolCalled => (ErrorPayloadNaming(call.name) /\ Store = before)
    /\ UnknownResourceRead =>
          (ErrorPayloadNaming(call.arguments.uri) /\ Store = before)

\* C15, amended: call_tool with an unknown tool name returns an error payload
\* that names the tool; read_resource with an unknown uri raises ValueError
\* with a message that names the uri; both leave the three stores unchanged.
C15_UnknownToolPayloadUnknownUriRaises ==
    /\ UnknownToolCalled => (ErrorPayloadNaming(call.name) /\ Store = before)
    /\ UnknownResourceRead =>
          /\ Raised
          /\ result.raised = "ValueError"
          /\ Mentions(result.message, call.arguments.uri)
          /\ Store = before

\* C15, its case: the read of an unknown uri, from stores that are not
\* empty, ends by the exception.
C15_Witness ==
    /\ UnknownResourceRead
    /\ Raised
    /\ Len(messages) = 2 /\ Len(tasks) = 1

\* the call was a query: a listing, the context, or the read of a resource
Queried ==
    \/ Called("get_messages")
    \/ Called("get_tasks")
    \/ Called("get_context")
    \/ Called("read_resource")

\* C16: get_messages, get_tasks, get_context and the resource reads leave
\* the messages with their read flags, the tasks with their updatedAt and
\* the shared context with its lastUpdated as they were before the call.
C16_QueriesMutateNothing ==
    Queried => Store = before

\* C16, its case: an unread-only listing that returns a message, which is
\* unread in the store after the call as before.
C16_Witness ==
    /\ Called("get_messages")
    /\ result.count > 0
    /\ \E i \in Positions(messages) :
          /\ messages[i] = result.messages[1]
          /\ ~messages[i].read

\* message m is message old but, at most, for its read flag
SameButRead(old, m) == m = [old EXCEPT !.read = m.read]

\* the call is one that stores a message: a send_message, create_task or
\* announce_presence that succeeded, or an update_task of a stored task
\* with status = "completed"
StoresAMessage ==
    \/ (Called("send_message") \/ Called("create_task")
           \/ Called("announce_presence")) /\ ~Raised
    \/ Called("update_task") /\ ~Raised /\ Found /\ AskedCompleted

\* C17: no call removes or reorders a message or changes a field of a stored
\* message other than read; a successful send_message, create_task,
\* announce_presence and update_task with status = "completed" make the list
\* longer by exactly one message, and every other call leaves its length.
C17_MessagesAppendOnly ==
    /\ Len(messages) >= Len(before.messages)
    /\ \A i \in Positions(before.messages) :
          SameButRead(before.messages[i], messages[i])
    /\ Len(messages) = Len(before.messages) + (IF StoresAMessage THEN 1 ELSE 0)

\* C17, its case: the completion of a task appends the second message and
\* leaves the first, which is read, as it was.
C17_Witness ==
    /\ Called("update_task") /\ Found /\ AskedCompleted
    /\ Len(before.messages) = 1 /\ Len(messages) = 2
    /\ before.messages[1].read
    /\ messages[1] = before.messages[1]
    /\ messages[2] # messages[1]

\* the fields of a task that the claim calls its identity
IdentityFields ==
    {"id", "title", "description", "assignedTo", "createdBy", "priority",
     "createdAt", "context"}

\* the fields a task is created with
TaskFields == IdentityFields \cup {"status", "updatedAt"}

\* no call removes or reorders a task or changes an identity field; only
\* update_task changes a stored task, and only the one it targets, in its
\* status (to the value supplied, when one is) and its updatedAt; no task
\* acquires a field, notes or other
TasksKept ==
    /\ Len(tasks) >= Len(before.tasks)
    /\ \A i \in Positions(tasks) : DOMAIN tasks[i] = TaskFields
    /\ \A i \in Positions(before.tasks) :
          /\ \A f \in IdentityFields : tasks[i][f] = before.tasks[i][f]
          /\ IF Called("update_task") /\ ~Raised /\ Found /\ i = TargetPosition
             THEN tasks[i].status =
                     (IF "status" \in DOMAIN call.arguments
                      THEN call.arguments.status ELSE before.tasks[i].status)
             ELSE tasks[i] = before.tasks[i]

\* a task just created is pending
CreatedPending ==
    (Called("create_task") /\ ~Raised) =>
        /\ GrewByOne(before.tasks, tasks)
        /\ tasks[Len(tasks)].status = "pending"

\* C18: the task store is append-only and identity fields are frozen; every
\* task is created pending with createdAt = updatedAt; update_task changes
\* only status (when supplied) and updatedAt of its target, stores no notes
\* and changes no other task.
C18_TasksFrozenAndCreatedAtOnce ==
    /\ TasksKept
    /\ CreatedPending
    /\ (Called("create_task") /\ ~Raised) =>
          tasks[Len(tasks)].createdAt = tasks[Len(tasks)].updatedAt

\* C18 but for createdAt = updatedAt: what of the claim the code keeps.
C18_TasksFrozen == TasksKept /\ CreatedPending

\* message m is in the unread listing that agent would get from ms
InUnreadListing(ms, m, agent) ==
    LET unread == listing(ms, [agent |-> agent, unreadOnly |-> TRUE]).messages
    IN \E i \in Positions(unread) : unread[i] = m

\* C19: the read flag belongs to the message, not to a recipient, and
\* mark_messages_read takes no caller: after a call that lists a message,
\* broadcast or addressed to whomever, that message is in the unread
\* listing of no agent.
C19_ReadForEveryAgent ==
    /\ (Called("mark_messages_read") /\ ~Raised) =>
          \A i \in Listed : \A agent \in Agents :
              ~InUnreadListing(messages, messages[i], agent)
    /\ \A i \in Positions(messages) : \A agent \in Agents :
          messages[i].read => ~InUnreadListing(messages, messages[i], agent)

\* C19, its case: a broadcast announcement that was in the unread listing of
\* both agents is marked by one call, beside a marked message addressed to
\* one agent only.
C19_Witness ==
    /\ Called("mark_messages_read")
    /\ \E i \in Listed :
          /\ before.messages[i].to = "all"
          /\ \A agent \in Agents :
                InUnreadListing(before.messages, before.messages[i], agent)
    /\ \E i \in Listed :
          /\ before.messages[i].to \in Agents
          /\ ~before.messages[i].read

\* the positions of the notifications of new tasks in the message store
CreationNotices ==
    {i \in Positions(messages) : messages[i].content[1] = "New task: \""}

\* the store has a completion message for the task
CompletionStored(task) ==
    \E i \in Positions(messages) :
        /\ messages[i].content[1] = "Completed: \""
        /\ Mentions(messages[i].content, task.title)
        /\ messages[i].from = task.assignedTo
        /\ messages[i].to = task.createdBy

\* C20: a call runs from its start to its return with no other call in
\* between, so in every state that a call can start from there are as many
\* notifications of new tasks as tasks, and every task that an update_task
\* completed has its completion message in the store.
C20_NoIntermediateState ==
    /\ Cardinality(CreationNotices) = Len(tasks)
    /\ \A i \in Positions(tasks) :
          tasks[i].status = "completed" => CompletionStored(tasks[i])

\* C20, its case: a call that starts after the task was created and
\* completed finds the notification and the completion message both.
C20_Witness ==
    /\ ~Called("create_task") /\ ~Called("update_task")
    /\ Len(before.tasks) = 1
    /\ before.tasks[1].status = "completed"
    /\ Len(before.messages) = 2
    /\ Cardinality(CreationNotices) = 1
    /\ CompletionStored(tasks[1])

====
